---- MODULE Spec2Model ----
(***************************************************************************)
(* BodyBytes (src/src/lib.rs): an iterator over the bytes of a stream that *)
(* first yields the bytes left in a borrowed buffer, buf[pos..len], and    *)
(* then refills the whole buffer from the stream each time it is drained.  *)
(*                                                                         *)
(* Rust indexes the buffer from 0; TLA+ sequences start at 1, so the byte  *)
(* the code calls buf[i] is buf[i + 1] here.                               *)
(***************************************************************************)
EXTENDS Integers, Sequences, FiniteSets, TLC

\* ---------------------------------------------------------------- bounds
\* Largest buffer capacity, largest stream content and the number of reads
\* that may fail in one run.
MaxCap == 2

MaxSrc == 3

MaxFail == 1

\* The byte values (u8). next() copies bytes and never inspects them, so two
\* values stand for the 256: they tell a lost, repeated or misplaced byte
\* from the right one.
Byte == {0, 1}

\* The failures a read of the stream may return (std::io::Error values).
ErrKinds == {"reset", "timeout"}

Min(a, b) == IF a < b THEN a ELSE b

SeqsUpTo(S, n) == UNION {[1 .. k -> S] : k \in 0 .. n}

VARIABLES
    stream,   \* the owned byte source: its content, its read offset, and
              \* whether it fills the buffer it is given whenever it can
    buf,      \* the borrowed buffer, a sequence of capacity Len(buf)
    pos,      \* byte position in the buffer to read next
    len,      \* number of valid bytes in the buffer
    made,     \* whether BodyBytes::new has run
    start0,   \* the start argument new was called with
    len0,     \* the len argument new was called with
    buf0,     \* the buffer contents the caller handed to new
    out,      \* the bytes returned so far as Some(Ok(b)), in order
    ret,      \* what the last call of next() returned
    rd,       \* what the read performed by the last call of next() returned
    nreads,   \* how many reads of the stream the last call of next() made
    fails,    \* how many reads have failed so far
    zeroRead, \* whether some read has succeeded with zero bytes
    late      \* whether content reached the stream after it was handed over

vars == <<stream, buf, pos, len, made, start0, len0, buf0, out, ret, rd,
          nreads, fails, zeroRead, late>>

\* ---------------------------------------------------------- return values
NoCall == [kind |-> "nocall", byte |-> 0, err |-> "none"]

RetNone == [kind |-> "none", byte |-> 0, err |-> "none"]

RetByte(b) == [kind |-> "byte", byte |-> b, err |-> "none"]

RetErr(e) == [kind |-> "err", byte |-> 0, err |-> e]

RetPanic == [kind |-> "panic", byte |-> 0, err |-> "none"]

NoRead == [kind |-> "noread", n |-> 0, err |-> "none"]

ReadOk(n) == [kind |-> "ok", n |-> n, err |-> "none"]

ReadErr(e) == [kind |-> "err", n |-> 0, err |-> e]

\* ------------------------------------------------------------- the stream
\* The bytes the stream still holds.
Remaining(s) == SubSeq(s.data, s.off + 1, Len(s.data))

\* The counts a successful read into b may return: 0 when the stream is at
\* its end or b is empty; otherwise what fits, for a stream that fills the
\* buffer whenever it can (std::io::Cursor, as in the tests), and any count
\* from 1 up to what fits for the others (a short read is a normal outcome
\* of Read::read).
ReadSizes(s, b) ==
    IF Min(Len(b), Len(Remaining(s))) = 0
    THEN {0}
    ELSE IF s.greedy
         THEN {Min(Len(b), Len(Remaining(s)))}
         ELSE 1 .. Min(Len(b), Len(Remaining(s)))

\* The buffer after a read transferred n bytes into it, from index 0.
Fill(b, s, n) ==
    [i \in 1 .. Len(b) |-> IF i <= n THEN s.data[s.off + i] ELSE b[i]]

\* The stream after a read transferred n bytes out of it.
Consume(s, n) == [s EXCEPT !.off = s.off + n]

\* --------------------------------------------------------------- BodyBytes
\* A refill one byte early: the test of line 80 written as pos + 1 >= len.
NeedsReadEarly(p, l) == p + 1 >= l

\* The test of line 80 written as pos >= len.
NeedsReadGe(p, l) == p >= l

\* The test of line 80 written as pos > len.
NeedsReadGt(p, l) == p > l

\* The test of line 80.
NeedsRead(p, l) == p = l

\* The cursor moved two places for one byte.
AdvanceTwo(p) == p + 2

\* The cursor after a byte was taken at p (line 95).
Advance(p) == p + 1

\* The buffer b"abcd" and the stream b"efghijklm" of the last case of
\* test_body_bytes.
ScenarioD_Buf == <<97, 98, 99, 100>>

ScenarioD_Stream == <<101, 102, 103, 104, 105, 106, 107, 108, 109>>

Init ==
    /\ \/ /\ \E cap \in 0 .. MaxCap : buf \in [1 .. cap -> Byte]
          /\ \E d \in SeqsUpTo(Byte, MaxSrc), g \in BOOLEAN :
                stream = [data |-> d, off |-> 0, greedy |-> g]
       \/ /\ buf = ScenarioD_Buf
          /\ stream = [data |-> ScenarioD_Stream, off |-> 0, greedy |-> TRUE]
    /\ buf0 = buf
    /\ pos = 0
    /\ len = 0
    /\ made = FALSE
    /\ start0 = 0
    /\ len0 = 0
    /\ out = <<>>
    /\ ret = NoCall
    /\ rd = NoRead
    /\ nreads = 0
    /\ fails = 0
    /\ zeroRead = FALSE
    /\ late = FALSE

\* new with start and len stored in each other's field.
NewSwapped ==
    /\ ~made
    /\ \E s \in 0 .. Len(buf) + 1, l \in 0 .. Len(buf) + 1 :
        /\ pos' = l
        /\ len' = s
        /\ start0' = s
        /\ len0' = l
    /\ made' = TRUE
    /\ UNCHANGED <<stream, buf, buf0, out, ret, rd, nreads, fails, zeroRead,
                   late>>

\* BodyBytes::new(stream, buf, start, len): stores its arguments.
New ==
    /\ ~made
    /\ \E s \in 0 .. Len(buf) + 1, l \in 0 .. Len(buf) + 1 :
        /\ pos' = s
        /\ len' = l
        /\ start0' = s
        /\ len0' = l
    /\ made' = TRUE
    /\ UNCHANGED <<stream, buf, buf0, out, ret, rd, nreads, fails, zeroRead,
                   late>>

\* next() with pos /= len and pos inside the buffer: lines 94-97.
NextDrain ==
    /\ made
    /\ ~NeedsRead(pos, len)
    /\ pos < Len(buf)
    /\ ret' = RetByte(buf[pos + 1])
    /\ out' = Append(out, buf[pos + 1])
    /\ pos' = Advance(pos)
    /\ rd' = NoRead
    /\ nreads' = 0
    /\ UNCHANGED <<stream, buf, len, made, start0, len0, buf0, fails,
                   zeroRead, late>>

\* next() with pos /= len and pos outside the buffer: the index of line 94
\* panics, nothing is assigned.
NextPanic ==
    /\ made
    /\ ~NeedsRead(pos, len)
    /\ pos >= Len(buf)
    /\ ret' = RetPanic
    /\ rd' = NoRead
    /\ nreads' = 0
    /\ UNCHANGED <<stream, buf, pos, len, made, start0, len0, buf0, out,
                   fails, zeroRead, late>>

\* The failure path with both cursors cleared before the failure is returned.
NextErrClear ==
    /\ made
    /\ NeedsRead(pos, len)
    /\ fails < MaxFail
    /\ \E e \in ErrKinds :
        /\ rd' = ReadErr(e)
        /\ ret' = RetErr(e)
    /\ nreads' = 1
    /\ fails' = fails + 1
    /\ pos' = 0
    /\ len' = 0
    /\ UNCHANGED <<stream, buf, made, start0, len0, buf0, out, zeroRead, late>>

\* The failure path with pos reset to 0 before the read (line 90 moved above
\* line 81), so that a failure leaves pos = 0 and len as it was.
NextErrRewind ==
    /\ made
    /\ NeedsRead(pos, len)
    /\ fails < MaxFail
    /\ \E e \in ErrKinds :
        /\ rd' = ReadErr(e)
        /\ ret' = RetErr(e)
    /\ nreads' = 1
    /\ fails' = fails + 1
    /\ pos' = 0
    /\ UNCHANGED <<stream, buf, len, made, start0, len0, buf0, out, zeroRead,
                   late>>

\* The failure path returning None instead of Some(Err(e)).
NextErrAsEnd ==
    /\ made
    /\ NeedsRead(pos, len)
    /\ fails < MaxFail
    /\ \E e \in ErrKinds : rd' = ReadErr(e)
    /\ ret' = RetNone
    /\ nreads' = 1
    /\ fails' = fails + 1
    /\ UNCHANGED <<stream, buf, pos, len, made, start0, len0, buf0, out,
                   zeroRead, late>>

\* The failure path returning an error of its own in place of the read's.
NextErrOwn ==
    /\ made
    /\ NeedsRead(pos, len)
    /\ fails < MaxFail
    /\ \E e \in ErrKinds : rd' = ReadErr(e)
    /\ ret' = RetErr("other")
    /\ nreads' = 1
    /\ fails' = fails + 1
    /\ UNCHANGED <<stream, buf, pos, len, made, start0, len0, buf0, out,
                   zeroRead, late>>

\* next() with pos = len and a read that fails: lines 81-83.
NextErr ==
    /\ made
    /\ NeedsRead(pos, len)
    /\ fails < MaxFail
    /\ \E e \in ErrKinds :
        /\ rd' = ReadErr(e)
        /\ ret' = RetErr(e)
    /\ nreads' = 1
    /\ fails' = fails + 1
    /\ UNCHANGED <<stream, buf, pos, len, made, start0, len0, buf0, out,
                   zeroRead, late>>

\* The zero-byte path with pos reset to 0 before the test of line 86.
NextEosRewind ==
    /\ made
    /\ NeedsRead(pos, len)
    /\ 0 \in ReadSizes(stream, buf)
    /\ rd' = ReadOk(0)
    /\ ret' = RetNone
    /\ nreads' = 1
    /\ zeroRead' = TRUE
    /\ pos' = 0
    /\ UNCHANGED <<stream, buf, len, made, start0, len0, buf0, out, fails,
                   late>>

\* The zero-byte path with a terminal flag: once a read has returned zero
\* bytes, None is returned without reading the stream again.
NextEosLatched ==
    /\ made
    /\ NeedsRead(pos, len)
    /\ \/ /\ zeroRead
          /\ rd' = NoRead
          /\ nreads' = 0
       \/ /\ ~zeroRead
          /\ 0 \in ReadSizes(stream, buf)
          /\ rd' = ReadOk(0)
          /\ nreads' = 1
    /\ ret' = RetNone
    /\ zeroRead' = TRUE
    /\ UNCHANGED <<stream, buf, pos, len, made, start0, len0, buf0, out,
                   fails, late>>

\* The zero-byte path without the test of line 86: the cursors are set to
\* 0 and buf[0] is taken, a stale byte or an index out of bounds.
NextEosNoCheck ==
    /\ made
    /\ NeedsRead(pos, len)
    /\ 0 \in ReadSizes(stream, buf)
    /\ rd' = ReadOk(0)
    /\ nreads' = 1
    /\ zeroRead' = TRUE
    /\ len' = 0
    /\ IF Len(buf) >= 1
       THEN /\ ret' = RetByte(buf[0 + 1])
            /\ out' = Append(out, buf[0 + 1])
            /\ pos' = Advance(0)
       ELSE /\ ret' = RetPanic
            /\ out' = out
            /\ pos' = 0
    /\ UNCHANGED <<stream, buf, made, start0, len0, buf0, fails, late>>

\* next() with pos = len and a read that succeeds with zero bytes:
\* lines 81-88.
NextEos ==
    /\ made
    /\ NeedsRead(pos, len)
    /\ 0 \in ReadSizes(stream, buf)
    /\ rd' = ReadOk(0)
    /\ ret' = RetNone
    /\ nreads' = 1
    /\ zeroRead' = TRUE
    /\ UNCHANGED <<stream, buf, pos, len, made, start0, len0, buf0, out,
                   fails, late>>

\* The refill path taking the whole buffer as valid, whatever the read
\* returned (len set to the capacity).
NextRefillFullLen ==
    /\ made
    /\ NeedsRead(pos, len)
    /\ \E n \in ReadSizes(stream, buf) \ {0} :
        /\ rd' = ReadOk(n)
        /\ buf' = Fill(buf, stream, n)
        /\ stream' = Consume(stream, n)
        /\ len' = Len(buf)
        /\ ret' = RetByte(buf'[0 + 1])
        /\ out' = Append(out, buf'[0 + 1])
        /\ pos' = Advance(0)
    /\ nreads' = 1
    /\ UNCHANGED <<made, start0, len0, buf0, fails, zeroRead, late>>

\* The refill path without the assignment of line 91: len keeps its value.
NextRefillKeepLen ==
    /\ made
    /\ NeedsRead(pos, len)
    /\ \E n \in ReadSizes(stream, buf) \ {0} :
        /\ rd' = ReadOk(n)
        /\ buf' = Fill(buf, stream, n)
        /\ stream' = Consume(stream, n)
        /\ len' = len
        /\ ret' = RetByte(buf'[0 + 1])
        /\ out' = Append(out, buf'[0 + 1])
        /\ pos' = Advance(0)
    /\ nreads' = 1
    /\ UNCHANGED <<made, start0, len0, buf0, fails, zeroRead, late>>

\* The refill path adding the count to len instead of assigning it.
NextRefillAddLen ==
    /\ made
    /\ NeedsRead(pos, len)
    /\ \E n \in ReadSizes(stream, buf) \ {0} :
        /\ rd' = ReadOk(n)
        /\ buf' = Fill(buf, stream, n)
        /\ stream' = Consume(stream, n)
        /\ len' = len + n
        /\ ret' = RetByte(buf'[0 + 1])
        /\ out' = Append(out, buf'[0 + 1])
        /\ pos' = Advance(0)
    /\ nreads' = 1
    /\ UNCHANGED <<made, start0, len0, buf0, fails, zeroRead, late>>

\* The refill path returning buf[0] with pos left at 0 (line 95 skipped
\* after a refill).
NextRefillNoAdvance ==
    /\ made
    /\ NeedsRead(pos, len)
    /\ \E n \in ReadSizes(stream, buf) \ {0} :
        /\ rd' = ReadOk(n)
        /\ buf' = Fill(buf, stream, n)
        /\ stream' = Consume(stream, n)
        /\ len' = n
        /\ ret' = RetByte(buf'[0 + 1])
        /\ out' = Append(out, buf'[0 + 1])
        /\ pos' = 0
    /\ nreads' = 1
    /\ UNCHANGED <<made, start0, len0, buf0, fails, zeroRead, late>>

\* next() with pos = len and a read that succeeds with n > 0 bytes:
\* lines 81-97.
NextRefill ==
    /\ made
    /\ NeedsRead(pos, len)
    /\ \E n \in ReadSizes(stream, buf) \ {0} :
        /\ rd' = ReadOk(n)
        /\ buf' = Fill(buf, stream, n)
        /\ stream' = Consume(stream, n)
        /\ len' = n
        /\ ret' = RetByte(buf'[0 + 1])
        /\ out' = Append(out, buf'[0 + 1])
        /\ pos' = Advance(0)
    /\ nreads' = 1
    /\ UNCHANGED <<made, start0, len0, buf0, fails, zeroRead, late>>

\* The environment of the stream: one more byte reaches it (a file that is
\* appended to, a connection that delivers more).
Arrive ==
    /\ made
    /\ Len(stream.data) < MaxSrc
    /\ \E b \in Byte : stream' = [stream EXCEPT !.data = Append(@, b)]
    /\ late' = TRUE
    /\ UNCHANGED <<buf, pos, len, made, start0, len0, buf0, out, ret, rd,
                   nreads, fails, zeroRead>>

\* One call of next(), whichever path it takes.
NextCall == NextDrain \/ NextPanic \/ NextErr \/ NextEos \/ NextRefill

Next ==
    \/ New
    \/ NextDrain
    \/ NextPanic
    \/ NextErr
    \/ NextEos
    \/ NextRefill
    \/ Arrive

Spec == Init /\ [][Next]_vars

\* A stream of fixed content (nothing reaches it later), read by a caller
\* that constructs the iterator and keeps calling next(); the reads that
\* fail are finitely many (at most MaxFail).
NextFinite ==
    \/ New
    \/ NextDrain
    \/ NextPanic
    \/ NextErr
    \/ NextEos
    \/ NextRefill

FiniteSpec ==
    /\ Init
    /\ [][NextFinite]_vars
    /\ WF_vars(New)
    /\ WF_vars(NextCall)

\* ------------------------------------------------------ claims: vocabulary
\* The caller's contract for new: start <= len <= capacity(buffer).
Pre == made /\ start0 <= len0 /\ len0 <= Len(buf)

\* B[s..l]: the bytes the buffer held between start and len when handed over.
Leftover == SubSeq(buf0, start0 + 1, len0)

\* The bytes of the buffer not yet produced, buf[pos..len].
Unread == SubSeq(buf, pos + 1, len)

\* The last call of next() returned end-of-sequence.
AtEnd == ret.kind = "none"

\* C1 (P1, drain-then-refill ordering, as amended): with start <= len <=
\* capacity, a capacity of at least 1, a stream of fixed content T and no
\* failed read, the bytes returned up to end-of-sequence are B[s..l]
\* followed by T, in order.
C1_DrainThenRefill ==
    (AtEnd /\ Pre /\ Len(buf) >= 1 /\ fails = 0 /\ ~late)
        => out = Leftover \o stream.data

\* C1 witness: end-of-sequence after leftover bytes and a stream longer than
\* the buffer, so that several refills happened.
C1_Witness ==
    /\ AtEnd /\ Pre /\ fails = 0 /\ ~late
    /\ Len(Leftover) >= 1
    /\ Len(stream.data) > Len(buf)
    /\ out = Leftover \o stream.data

\* C1 as stated (any buffer, the empty one included): the bytes returned up
\* to end-of-sequence are B[s..l] followed by T.
C1_Original ==
    (AtEnd /\ Pre /\ fails = 0 /\ ~late) => out = Leftover \o stream.data

C3_FailedReadKeepsCursors ==
    [][(NextCall /\ pos = len /\ fails' # fails)
        => /\ ret'.kind = "err"
           /\ pos' = pos /\ len' = len
           /\ NeedsRead(pos', len')]_vars

\* C3 witness: a failure was just returned with the cursors equal, after a
\* refill had moved them.
C3_Witness ==
    /\ ret.kind = "err" /\ rd.kind = "err" /\ nreads = 1
    /\ pos = len /\ len >= 1
    /\ stream.off >= 1

\* C4 (P4, error retry, as amended): with start <= len <= capacity and
\* failed reads in the run, no byte is lost or produced twice: the bytes
\* produced, then the unread bytes of the buffer, then what the stream still
\* holds, are B[s..l] followed by T; and with a capacity of at least 1 and a
\* stream of fixed content T, the bytes produced up to end-of-sequence are
\* B[s..l] followed by T.
C4_RetryLosesNothing ==
    (Pre /\ fails >= 1)
        => /\ out \o Unread \o Remaining(stream) = Leftover \o stream.data
           /\ (AtEnd /\ Len(buf) >= 1 /\ ~late)
                => out = Leftover \o stream.data

\* C4 witness: end-of-sequence reached with every byte produced, leftover
\* bytes and several refills, in a run where a read failed.
C4_Witness ==
    /\ AtEnd /\ Pre /\ ~late
    /\ fails >= 1
    /\ Len(Leftover) >= 1
    /\ Len(stream.data) > Len(buf)
    /\ out = Leftover \o stream.data

\* C4 as stated (any buffer, the empty one included): in a run with failed
\* reads the bytes produced up to end-of-sequence are B[s..l] followed by T.
C4_Original ==
    (AtEnd /\ Pre /\ fails >= 1 /\ ~late) => out = Leftover \o stream.data

\* C5: the last call returned end-of-sequence exactly when its read
\* succeeded with zero bytes; a call whose read failed returned that failure;
\* and under start <= len <= capacity a call returns a byte, a failure or
\* end-of-sequence and nothing else.
C5_EndIffZeroRead ==
    /\ AtEnd <=> rd = ReadOk(0)
    /\ rd.kind = "err" <=> ret.kind = "err"
    /\ (rd.kind = "ok" /\ rd.n >= 1) => ret.kind = "byte"
    /\ rd.kind = "noread" => ret.kind \in {"nocall", "byte", "panic"}
    /\ Pre => ret.kind \in {"nocall", "byte", "err", "none"}

\* C5 witness: end-of-sequence returned on a zero-byte read in a run where an
\* earlier read failed and bytes were produced after it.
C5_Witness ==
    /\ AtEnd /\ rd = ReadOk(0) /\ Pre
    /\ fails >= 1
    /\ stream.off >= 1
    /\ Len(out) >= 1

\* C6: constructed with start <= len, pos <= len in every state.
C6_PosLeLen == (made /\ start0 <= len0) => (0 <= pos /\ pos <= len)

\* C6 witness: the buffer drained again after a refill, pos = len >= 1.
C6_Witness ==
    /\ made /\ start0 <= len0
    /\ ret.kind = "byte" /\ stream.off >= 1
    /\ pos = len /\ len >= 1

\* C7: constructed with len <= capacity, 0 <= len <= capacity in every
\* state (a read returns at most the capacity of the buffer it is given).
C7_LenLeCapacity == (made /\ len0 <= Len(buf)) => (0 <= len /\ len <= Len(buf))

\* C7 witness: a refill that filled the whole buffer of capacity >= 2, after
\* a shorter valid length.
C7_Witness ==
    /\ made /\ len0 < Len(buf)
    /\ rd.kind = "ok" /\ rd.n = Len(buf)
    /\ len = Len(buf) /\ Len(buf) >= 2

\* C8: new reads nothing and leaves the buffer alone: before the first call
\* of next(), pos = start, len = len argument, the buffer and the stream are
\* as handed over; and under start <= len <= capacity, as long as no read
\* has been made the bytes produced are buf[start..pos] of that buffer.
C8_NewDoesNoIO ==
    /\ (made /\ ret = NoCall)
        => /\ pos = start0 /\ len = len0
           /\ buf = buf0
           /\ stream.off = 0
           /\ nreads = 0 /\ rd = NoRead
    /\ (Pre /\ stream.off = 0 /\ fails = 0 /\ ~zeroRead)
        => /\ buf = buf0
           /\ out = SubSeq(buf0, start0 + 1, pos)

\* C8 witness: the leftover bytes buf[start..len], at least two of them and
\* start > 0, produced before any read.
C8_Witness ==
    /\ Pre /\ stream.off = 0 /\ fails = 0 /\ ~zeroRead
    /\ start0 >= 1
    /\ pos = len0
    /\ Len(out) >= 1
    /\ out = Leftover

\* C9: a call with pos < len (and len within the capacity) returns
\* buf[pos], adds 1 to pos, reads nothing, and leaves len, the buffer and
\* the stream as they were.
C9_DrainFrame ==
    [][(NextCall /\ pos < len /\ len <= Len(buf))
        => /\ ret' = RetByte(buf[pos + 1])
           /\ out' = Append(out, buf[pos + 1])
           /\ pos' = pos + 1
           /\ nreads' = 0 /\ rd' = NoRead
           /\ len' = len /\ buf' = buf /\ stream' = stream]_vars

\* C9 witness: a byte just returned without a read, from a buffer that an
\* earlier refill had written.
C9_Witness ==
    /\ Pre
    /\ ret.kind = "byte" /\ nreads = 0
    /\ stream.off >= 2
    /\ pos = 2

\* C10: a call reads the stream exactly when pos = len at entry, and then
\* once; a call with pos /= len leaves the buffer and the stream alone, so
\* no unread byte buf[pos..len] is overwritten.
C10_ReadOnlyWhenDrained ==
    [][NextCall
        => /\ nreads' = (IF pos = len THEN 1 ELSE 0)
           /\ (pos # len) => (buf' = buf /\ stream' = stream)
           /\ (pos = len) => stream'.off - stream.off \in ReadSizes(stream, buf) \cup {0}
           /\ \A i \in 1 .. Len(buf) :
                (pos < i /\ i <= len) => buf'[i] = buf[i]]_vars

\* C10 witness: a refill just overwrote a buffer whose bytes had all been
\* produced.
C10_Witness ==
    /\ Pre
    /\ nreads = 1 /\ rd.kind = "ok" /\ rd.n >= 1
    /\ Len(Leftover) >= 1
    /\ buf # buf0

\* C11: a call with pos = len whose read transfers n > 0 bytes returns the
\* first byte of that read, which is buf[0] after the call, and ends with
\* pos = 1 and len = n.
C11_RefillStep ==
    [][(NextCall /\ pos = len /\ stream'.off > stream.off)
        => /\ ret' = RetByte(stream.data[stream.off + 1])
           /\ ret'.byte = buf'[1]
           /\ out' = Append(out, stream.data[stream.off + 1])
           /\ pos' = 1
           /\ len' = stream'.off - stream.off
           /\ rd' = ReadOk(len')]_vars

\* C11 witness: a refill of two bytes just returned its first byte, after
\* the leftover bytes had been produced.
C11_Witness ==
    /\ Pre /\ Len(Leftover) >= 1
    /\ rd = ReadOk(2) /\ nreads = 1
    /\ ret = RetByte(buf[1])
    /\ pos = 1 /\ len = 2

\* C12 (P3): once a read has transferred bytes, the valid region buf[0..len]
\* holds exactly the bytes of the last read, the bytes produced since that
\* read are buf[0..pos], and len counts that read alone, so a stale byte at
\* an index >= len is never produced.
C12_OnlyReadBytesProduced ==
    (made /\ stream.off >= 1)
        => /\ pos <= len /\ len <= stream.off /\ len <= Len(buf)
           /\ SubSeq(buf, 1, len)
                = SubSeq(stream.data, stream.off - len + 1, stream.off)
           /\ pos <= Len(out)
           /\ SubSeq(out, Len(out) - pos + 1, Len(out)) = SubSeq(buf, 1, pos)
           /\ Len(out) - pos = Len(Leftover) + (stream.off - len)

\* C12 witness: end-of-sequence after a last read of one byte into a larger
\* buffer: that byte was produced, the stale byte of another value behind it
\* was not.
C12_Witness ==
    /\ Pre /\ AtEnd /\ ~late
    /\ stream.off >= 2
    /\ pos = len /\ len = 1 /\ Len(buf) >= 2
    /\ buf[2] # buf[1]
    /\ out = Leftover \o stream.data

\* C13: next() returns a failure only in a call whose read failed, and the
\* failure returned is the one that read returned; a failed read is always
\* returned as a failure.
C13_FailureVerbatim ==
    /\ ret.kind = "err" => (nreads = 1 /\ rd = ReadErr(ret.err))
    /\ rd.kind = "err" => ret = RetErr(rd.err)
    /\ ret.kind = "err" => ret.err \in ErrKinds

\* C13 witness: the failure "timeout" of a read returned as such, after a
\* refill.
C13_Witness ==
    /\ rd = ReadErr("timeout") /\ ret = RetErr("timeout")
    /\ stream.off >= 1

\* The contract of C14: start <= len <= capacity and capacity > 0.
PreCap == Pre /\ Len(buf) >= 1

\* C14: with capacity > 0, start <= len <= capacity and a stream of fixed
\* content T whose reads fail finitely often, repeated calls of next() reach
\* end-of-sequence, after exactly (len - start) + |T| byte items; and each
\* refill from a stream that fills the buffer whenever it can starts at a
\* multiple of the capacity and takes a whole buffer or all that is left
\* (capacity 4 and 9 bytes: 4, 4, 1, then the zero-byte read).
C14_Terminates ==
    /\ PreCap ~> AtEnd
    /\ [](  (AtEnd /\ PreCap)
              => /\ Len(out) = (len0 - start0) + Len(stream.data)
                 /\ rd = ReadOk(0)
                 /\ stream.off = Len(stream.data))
    /\ [](  (PreCap /\ stream.greedy /\ rd.kind = "ok" /\ rd.n >= 1)
              => /\ (stream.off - rd.n) % Len(buf) = 0
                 /\ rd.n = Min(Len(buf), Len(stream.data) - (stream.off - rd.n)))

\* C14 witness: Scenario D at its end: buffer "abcd", start 2, len 4, stream
\* "efghijklm", a failed read on the way, "cdefghijklm" produced, the last
\* refill being the single byte "m" at offset 8.
C14_Witness ==
    /\ PreCap /\ AtEnd
    /\ buf0 = ScenarioD_Buf /\ start0 = 2 /\ len0 = 4
    /\ stream.data = ScenarioD_Stream /\ stream.greedy
    /\ fails >= 1
    /\ out = <<99, 100>> \o ScenarioD_Stream
    /\ Len(out) = 11
    /\ len = 1 /\ pos = 1
    /\ buf = <<109, 106, 107, 108>>

\* C15: a call that returns end-of-sequence was made with pos = len and
\* leaves pos, len, the buffer and the stream as they were; nothing is
\* latched: the call after it reads the stream again and returns a failure
\* if that read fails, the first byte read if the stream then has data for a
\* non-empty buffer, and end-of-sequence otherwise.
C15_EndNotLatched ==
    [][NextCall
        => /\ (ret' = RetNone)
                => /\ pos = len
                   /\ pos' = pos /\ len' = len
                   /\ buf' = buf /\ stream' = stream
           /\ AtEnd
                => /\ nreads' = 1
                   /\ (fails' # fails) => ret'.kind = "err"
                   /\ (fails' = fails /\ 0 \notin ReadSizes(stream, buf))
                        => ret' = RetByte(stream.data[stream.off + 1])
                   /\ (fails' = fails /\ 0 \in ReadSizes(stream, buf))
                        => ret' = RetNone]_vars

\* C15 witness: a byte returned by a call made after end-of-sequence had
\* been returned, from data that reached the stream after the zero-byte
\* read.
C15_Witness ==
    /\ Pre /\ zeroRead /\ late
    /\ ret.kind = "byte" /\ rd.kind = "ok" /\ rd.n >= 1
    /\ stream.off = Len(stream.data)
    /\ Len(out) = Len(Leftover) + stream.off

\* C16: under start <= len <= capacity no call of next() panics, and the
\* index a call reads, pos - 1 after the call, is below len <= capacity.
C16_InBounds ==
    Pre => /\ ret.kind # "panic"
           /\ ret.kind = "byte" => (0 <= pos - 1 /\ pos - 1 < len)
           /\ len <= Len(buf)
           /\ pos <= Len(buf)

\* C16 witness: the last index of a full buffer, capacity - 1, just read
\* after a refill that filled it.
C16_Witness ==
    /\ Pre /\ Len(buf) >= 2
    /\ ret.kind = "byte" /\ stream.off >= Len(buf)
    /\ pos = Len(buf) /\ len = Len(buf)

\* C17: with a buffer of capacity 0 (start = len = 0) every read returns
\* zero bytes or fails: no byte is ever produced, the stream is never
\* advanced, and a call returns end-of-sequence unless its read failed,
\* also when the stream holds data.
C17_ZeroCapacity ==
    (made /\ Len(buf) = 0 /\ start0 = 0 /\ len0 = 0)
        => /\ out = <<>>
           /\ stream.off = 0
           /\ pos = 0 /\ len = 0
           /\ ret.kind \in {"nocall", "none", "err"}
           /\ (ret.kind = "err") => rd.kind = "err"
           /\ (ret # NoCall /\ rd.kind # "err") => (AtEnd /\ rd = ReadOk(0))

\* C17 witness: end-of-sequence returned for an empty buffer while the
\* stream holds two bytes, none produced.
C17_Witness ==
    /\ made /\ Len(buf) = 0 /\ start0 = 0 /\ len0 = 0
    /\ AtEnd /\ fails = 0
    /\ Len(Remaining(stream)) >= 2
    /\ out = <<>>

\* C18: constructed with start > len, pos stays above len, so pos never
\* equals len and no call reads the stream; the calls return buf[start],
\* buf[start + 1], ... of the buffer as handed over, and a call made with
\* pos at or beyond the capacity panics, leaving the state as it was.
C18_StartBeyondLen ==
    /\ []((made /\ start0 > len0)
            => /\ pos > len /\ len = len0
               /\ stream.off = 0 /\ buf = buf0
               /\ nreads = 0 /\ rd = NoRead /\ fails = 0 /\ ~zeroRead
               /\ ret.kind \in {"nocall", "byte", "panic"}
               /\ out = SubSeq(buf0, start0 + 1, pos)
               /\ (ret.kind = "panic") => pos >= Len(buf)
               /\ (pos > Len(buf)) => pos = start0)
    /\ [][(NextCall /\ start0 > len0)
            => IF pos < Len(buf)
               THEN ret' = RetByte(buf[pos + 1]) /\ pos' = pos + 1
               ELSE ret' = RetPanic /\ pos' = pos /\ out' = out]_vars

\* C18 witness: start = 1 > len = 0 in a buffer of capacity 2: buf[1] was
\* returned, pos reached the capacity and the next call panicked.
C18_Witness ==
    /\ made /\ start0 = 1 /\ len0 = 0 /\ Len(buf) = 2
    /\ out = <<buf0[2]>>
    /\ pos = 2
    /\ ret = RetPanic
    /\ Len(Remaining(stream)) >= 1

====
